---- MODULE Spec2Model ----
(***************************************************************************)
(* The dispatch engine of the pubsub hub: simplehub (registry, matching,   *)
(* fan-out, completion) and structuredHub (canonical maps, handler shape). *)
(*                                                                         *)
(* Goroutines are the callers of the hub, the waiter goroutine each        *)
(* Publish starts, and one worker per subscriber that runs the closures    *)
(* handed to it by notify.                                                 *)
(***************************************************************************)
EXTENDS Integers, Sequences, FiniteSets, Bags, TLC

\* Bounds of the model: the calls of Subscribe, Unsubscribe and Publish made
\* on the hub in one behaviour.
MaxCalls == 4          \* basic hub, two callers
MaxStructCalls == 3    \* structured hub, one caller
MaxLiveCalls == 3      \* basic hub under fair scheduling
MaxFailCalls == 3      \* basic hub with handlers that panic, one caller
MaxReentrantCalls == 4 \* basic hub with handlers that call the hub

Callers == {"c1", "c2"}
Topics == {"a", "b"}
Patterns == {"a", "b", "("}
\* each caller publishes a payload of its own
Opaque(v) == [kind |-> "opaque", v |-> v]
DataOf(c) == IF c = "c1" THEN {Opaque("d1")} ELSE {Opaque("d2")}

Free == "free"
NoClosure == [pub |-> 0, own |-> 0]
NoHandler == [kind |-> "none", rt |-> "-"]
NoData == [kind |-> "none"]
NoArgs == [topic |-> "", data |-> NoData, handler |-> NoHandler, id |-> -1, pub |-> 0]
NoRet == [op |-> "none", by |-> "", err |-> "nil", val |-> -1]

\* JSON objects and Go maps: functions from keys to values, the values written
\* as their JSON text ("1" a number, "\"x\"" a string).
EmptyObject == [k \in {} |-> ""]
Map(kv) == [kind |-> "map", nil |-> FALSE, kv |-> kv]
NilMap == [kind |-> "map", nil |-> TRUE, kv |-> EmptyObject]
NoAnnotations == Map(EmptyObject)

\* A handler the basic hub accepts, func(topic string, data interface{}), and
\* a value that is no such function.
PlainHandler == [kind |-> "plain", rt |-> "-"]
BadHandler == [kind |-> "invalid", rt |-> "-"]
Handlers == {PlainHandler, BadHandler}

VARIABLES
    subscribers,  \* simplehub.subscribers: the registry, a sequence of *subscriber
    idx,          \* simplehub.idx: the id counter
    mutex,        \* simplehub.mutex: Free or the caller that holds it
    subs,         \* the subscriber objects ever created, by reference
    pubs,         \* the frames of the Publish calls: topic, data, loop, wait, done
    pc,           \* where each caller is
    args,         \* the arguments of each caller's current call
    ret,          \* what the last call returned, until the next call is made
    tokens,       \* the ids of the unsubscribe handles handed out
    unsubscribed, \* bag of the ids whose Unsubscribe calls have returned
    ncalls,       \* calls made on the hub so far
    calls,        \* bag of handler invocations: [pub, sub, topic, data, err]
    annotations,  \* structuredHub.annotations
    limit         \* the bound on ncalls in this behaviour

vars == <<subscribers, idx, mutex, subs, pubs, pc, args, ret, tokens,
          unsubscribed, ncalls, calls, annotations, limit>>

Refs == 1..Len(subs)
PubIds == 1..Len(pubs)

----------------------------------------------------------------------------
\* The subscriber: an id, a compiled topic pattern, a handler, and a worker
\* of its own that runs the closures handed to it by notify, one at a time
\* and in the order they were handed over.

\* regexp compile of the topic pattern
PatternCompiles(pattern) == pattern # "("

\* the compiled pattern's MatchString, on the patterns and topics used here:
\* "foo.*" matches "foo.bar", a pattern without operators matches itself
MatchString(pattern, topic) ==
    IF pattern = "foo.*" THEN topic = "foo.bar" ELSE pattern = topic

newSubscriberOk(topic, handler) ==
    PatternCompiles(topic) /\ handler.kind # "invalid"

newSubscriber(topic, handler) ==
    [id |-> 0, topic |-> topic, handler |-> handler,
     pending |-> <<>>, running |-> NoClosure, closed |-> 0, panics |-> 0]

\* s.notify(closure): the closure joins the subscriber's queue
notify(ss, r, closure) ==
    [ss EXCEPT ![r].pending = Append(@, closure)]

\* sub.close(): the close hook
close(ss, r) ==
    [ss EXCEPT ![r].closed = @ + 1]


----------------------------------------------------------------------------
\* structuredHub

\* --- reflect.Type of a handler's parameters ---
StringType == [kind |-> "string", name |-> "string"]
TopicType == [kind |-> "string", name |-> "Topic"]        \* type Topic string
IntType == [kind |-> "int", name |-> "int"]
MapType == [kind |-> "map", name |-> ""]                  \* map[string]interface{}
FieldsType == [kind |-> "map", name |-> "Fields"]         \* type Fields map[string]interface{}
RecType == [kind |-> "struct", name |-> "Rec"]            \* type Rec struct
PtrType == [kind |-> "ptr", name |-> ""]                  \* *Rec
ErrorType == [kind |-> "interface", name |-> "error"]
StringerType == [kind |-> "interface", name |-> "Stringer"]
AnyType == [kind |-> "interface", name |-> ""]            \* interface{}
NoType == [kind |-> "invalid", name |-> ""]

Func(in, out) == [kind |-> "func", in |-> in, out |-> out]
NilHandler == [kind |-> "nil", in |-> <<>>, out |-> 0]    \* Subscribe(topic, nil)
IntHandler == [kind |-> "int", in |-> <<>>, out |-> 0]    \* Subscribe(topic, 42)

\* the handlers Subscribe is tried with
StructHandlers ==
    { Func(<<StringType, MapType, ErrorType>>, 0),
      Func(<<StringType, RecType, ErrorType>>, 0),
      Func(<<TopicType, RecType, ErrorType>>, 0),
      Func(<<StringType, RecType>>, 0),
      Func(<<StringType, RecType, ErrorType, IntType>>, 0),
      Func(<<StringType, RecType, ErrorType>>, 1),
      Func(<<IntType, RecType, ErrorType>>, 0),
      Func(<<StringType, IntType, ErrorType>>, 0),
      Func(<<StringType, FieldsType, ErrorType>>, 0),
      Func(<<StringType, PtrType, ErrorType>>, 0),
      Func(<<StringType, RecType, StringType>>, 0),
      Func(<<StringType, RecType, StringerType>>, 0),
      Func(<<StringType, RecType, AnyType>>, 0),
      IntHandler,
      NilHandler }

NotValid == [err |-> "NotValid", rt |-> NoType]

\* checkHandler: the handler's data type, or why the handler is refused.
\* reflect.TypeOf(nil) is the nil Type, and t.Kind() on it panics.
checkHandler(handler) ==
    IF handler.kind = "nil" THEN [err |-> "panic", rt |-> NoType]
    ELSE IF handler.kind # "func" THEN NotValid
    ELSE IF Len(handler.in) # 3 \/ handler.out # 0 THEN NotValid
    ELSE IF handler.in[1].kind # "string" THEN NotValid
    ELSE IF handler.in[2].kind # "struct" /\ handler.in[2] # MapType THEN NotValid
    ELSE IF handler.in[3].kind # "interface" \/ handler.in[3].name # "error"
         THEN NotValid
    ELSE [err |-> "nil", rt |-> handler.in[2]]

\* the closure Subscribe registers with the basic hub in place of the handler
Deserialize(rt) == [kind |-> "deserialize", rt |-> rt]

\* --- values ---
Rec(value, app) == [kind |-> "Rec", f |-> [value |-> value, app |-> app]]
ZeroRec == Rec("0", "\"\"")
NumberTexts == {"0", "1"}
StringTexts == {"\"\"", "\"x\"", "\"y\""}

\* the payloads Publish is tried with
MapPayloads ==
    { Map([value |-> "1"]),
      Map([value |-> "1", app |-> "\"y\""]),
      Map([value |-> "\"x\""]),
      Map(EmptyObject),
      NilMap }
Payloads ==
    MapPayloads \cup
    { [kind |-> "nil"],                          \* Publish(topic, nil)
      [kind |-> "Fields", kv |-> [value |-> "1"]],  \* a named map type
      Rec("1", "\"y\""),
      [kind |-> "nilptr"],                       \* (*Rec)(nil)
      [kind |-> "chan"],                         \* make(chan int)
      [kind |-> "number"] }                      \* 5

\* the annotations a hub is made with
AnnotationChoices ==
    { NoAnnotations, Map([app |-> "\"x\""]) }

\* json.Marshal(data): the JSON text, as "null", an object or another value
Marshal(data) ==
    CASE data.kind = "map" ->
            IF data.nil THEN [err |-> "nil", json |-> "null", kv |-> EmptyObject]
            ELSE [err |-> "nil", json |-> "object", kv |-> data.kv]
      [] data.kind = "Fields" -> [err |-> "nil", json |-> "object", kv |-> data.kv]
      [] data.kind = "Rec" -> [err |-> "nil", json |-> "object", kv |-> data.f]
      [] data.kind = "nilptr" -> [err |-> "nil", json |-> "null", kv |-> EmptyObject]
      [] data.kind = "number" -> [err |-> "nil", json |-> "number", kv |-> EmptyObject]
      [] OTHER -> [err |-> "json marshalling", json |-> "", kv |-> EmptyObject]

\* json.Unmarshal(bytes, &result) for var result map[string]interface{}
UnmarshalMap(js) ==
    CASE js.json = "null" -> [err |-> "nil", m |-> NilMap]
      [] js.json = "object" -> [err |-> "nil", m |-> Map(js.kv)]
      [] OTHER -> [err |-> "json unmarshalling", m |-> NilMap]

\* json.Unmarshal(bytes, sv.Interface()) for a *Rec: a field whose JSON value
\* has the wrong type is skipped and reported, the others are still set
UnmarshalRec(js) ==
    IF js.json = "null" THEN [err |-> "nil", value |-> ZeroRec]
    ELSE IF js.json # "object" THEN [err |-> "json unmarshalling", value |-> ZeroRec]
    ELSE LET has(k) == k \in DOMAIN js.kv
             okValue == has("value") => js.kv["value"] \in NumberTexts
             okApp == has("app") => js.kv["app"] \in StringTexts
         IN  [err |-> IF okValue /\ okApp THEN "nil" ELSE "json unmarshalling",
              value |-> Rec(IF has("value") /\ okValue THEN js.kv["value"] ELSE "0",
                            IF has("app") /\ okApp THEN js.kv["app"] ELSE "\"\"")]

\* toStringMap: the payload as a map[string]interface{}; cast tells that the
\* map returned is the payload itself (return cast) and not a map made by
\* Unmarshal (return result).
\* reflect.TypeOf(nil) is the nil Type, and dataType.AssignableTo panics.
toStringMap(data) ==
    IF data.kind = "nil" THEN [err |-> "panic", m |-> NilMap, cast |-> FALSE]
    ELSE IF data.kind = "map" THEN [err |-> "nil", m |-> data, cast |-> TRUE]
    ELSE IF data.kind = "Fields"
         THEN [err |-> "assignable but isn't one", m |-> NilMap, cast |-> FALSE]
    ELSE LET js == Marshal(data)
         IN  IF js.err # "nil" THEN [err |-> js.err, m |-> NilMap, cast |-> FALSE]
             ELSE [err |-> UnmarshalMap(js).err, m |-> UnmarshalMap(js).m,
                   cast |-> FALSE]

\* a Publish that hands on the payload's map without the annotations
MergeNothing(asMap) == [err |-> "nil", m |-> asMap]

\* the value of key in the map Publish hands on
MergedValue(asMap, key) ==
    IF key \in DOMAIN asMap.kv THEN asMap.kv[key] ELSE annotations.kv[key]

\* for key, value := range h.annotations { if absent { asMap[key] = value } }
\* An assignment to an entry of a nil map panics.
MergeAnnotations(asMap) ==
    LET missing == DOMAIN annotations.kv \ DOMAIN asMap.kv
    IN  IF asMap.nil /\ missing # {} THEN [err |-> "panic", m |-> asMap]
        ELSE [err |-> "nil",
              m |-> [asMap EXCEPT !.kv =
                       [k \in DOMAIN asMap.kv \cup DOMAIN annotations.kv |->
                          MergedValue(asMap, k)]]]

\* the payload object the caller holds, once Publish's merge loop has run:
\* the loop writes into asMap, which is the caller's map when toStringMap
\* returned cast
CallersMapAfter(data) ==
    LET sm == toStringMap(data)
        mg == MergeAnnotations(sm.m)
    IN  IF sm.err = "nil" /\ sm.cast /\ mg.err = "nil" THEN mg.m ELSE data

\* toHanderType: the canonical map as a value of the handler's data type
toHanderType(rt, data) ==
    IF rt = MapType THEN [err |-> "nil", value |-> data]
    ELSE LET js == Marshal(data)
         IN  IF js.err # "nil" THEN [err |-> js.err, value |-> ZeroRec]
             ELSE UnmarshalRec(js)

\* the deserialize closure: what it calls the handler with
deserialize(rt, data) ==
    IF data.kind # "map" THEN [err |-> "bad publish data", value |-> ZeroRec]
    ELSE toHanderType(rt, data)

----------------------------------------------------------------------------
\* simplehub

matchTopic(s, topic) == MatchString(s.topic, topic)

\* s.handler(topic, data) for subscriber r in a closure of publish p: what the
\* subscriber's function is called with.
Invoke(p, r, handler, topic, data) ==
    IF handler.kind = "deserialize"
    THEN LET d == deserialize(handler.rt, data)
         IN  [pub |-> p, sub |-> r, topic |-> topic, data |-> d.value, err |-> d.err]
    ELSE [pub |-> p, sub |-> r, topic |-> topic, data |-> data, err |-> "nil"]

\* --- Subscribe ---

SubscribeCall(c, topic, handler) ==
    /\ pc[c] = "idle"
    /\ ncalls < limit
    /\ ncalls' = ncalls + 1
    /\ ret' = NoRet
    /\ pc' = [pc EXCEPT ![c] = "Subscribe"]
    /\ args' = [args EXCEPT ![c] = [NoArgs EXCEPT !.topic = topic, !.handler = handler]]
    /\ UNCHANGED <<subscribers, idx, mutex, subs, pubs, tokens, unsubscribed,
                   calls, annotations, limit>>

SubscribeLock(c) ==
    /\ pc[c] = "Subscribe"
    /\ mutex = Free
    /\ mutex' = c
    /\ pc' = [pc EXCEPT ![c] = "SubscribeLocked"]
    /\ UNCHANGED <<subscribers, idx, subs, pubs, args, ret, tokens, unsubscribed,
                   ncalls, calls, annotations, limit>>

\* an id taken from the length of the registry
SubscribeIdFromLen(i) == Len(subscribers)

\* a counter that is advanced before newSubscriber's error is looked at
SubscribeNextIdxAlways(i, ok) == i + 1

\* the id a new subscriber gets, and the counter afterwards
SubscribeId(i) == i
SubscribeNextIdx(i, ok) == IF ok THEN i + 1 ELSE i

SubscribeBody(c) ==
    /\ pc[c] = "SubscribeLocked"
    /\ LET ok == newSubscriberOk(args[c].topic, args[c].handler)
           sub == [newSubscriber(args[c].topic, args[c].handler)
                     EXCEPT !.id = SubscribeId(idx)]
       IN  /\ idx' = SubscribeNextIdx(idx, ok)
           /\ IF ok
              THEN /\ subs' = Append(subs, sub)
                   /\ subscribers' = Append(subscribers, Len(subs) + 1)
                   /\ tokens' = tokens \cup {sub.id}
                   /\ ret' = [op |-> "Subscribe", by |-> c, err |-> "nil", val |-> sub.id]
              ELSE /\ UNCHANGED <<subs, subscribers, tokens>>
                   /\ ret' = [op |-> "Subscribe", by |-> c, err |-> "error", val |-> -1]
    /\ mutex' = Free
    /\ pc' = [pc EXCEPT ![c] = "idle"]
    /\ args' = [args EXCEPT ![c] = NoArgs]
    /\ UNCHANGED <<pubs, unsubscribed, ncalls, calls, annotations, limit>>

\* --- Unsubscribe ---

UnsubscribeCall(c, id) ==
    /\ pc[c] = "idle"
    /\ ncalls < limit
    /\ ncalls' = ncalls + 1
    /\ ret' = NoRet
    /\ pc' = [pc EXCEPT ![c] = "Unsubscribe"]
    /\ args' = [args EXCEPT ![c] = [NoArgs EXCEPT !.id = id]]
    /\ UNCHANGED <<subscribers, idx, mutex, subs, pubs, tokens, unsubscribed, calls, annotations, limit>>

\* an unsubscribe that goes on without the mutex
UnsubscribeNoLock(c) ==
    /\ pc[c] = "Unsubscribe"
    /\ pc' = [pc EXCEPT ![c] = "UnsubscribeLocked"]
    /\ UNCHANGED <<subscribers, idx, mutex, subs, pubs, args, ret, tokens,
                   unsubscribed, ncalls, calls, annotations, limit>>

UnsubscribeLock(c) ==
    /\ pc[c] = "Unsubscribe"
    /\ mutex = Free
    /\ mutex' = c
    /\ pc' = [pc EXCEPT ![c] = "UnsubscribeLocked"]
    /\ UNCHANGED <<subscribers, idx, subs, pubs, args, ret, tokens, unsubscribed,
                   ncalls, calls, annotations, limit>>

\* a scan that takes the first subscriber whose id is not below the one asked
IdMatchesAtLeast(sub, id) == sub.id >= id

\* the test of the scan: is this the subscriber to remove
IdMatches(sub, id) == sub.id = id

\* the first position of the registry whose subscriber passes the test, or 0
FindSubscriber(id) ==
    LET hits == {i \in 1..Len(subscribers) : IdMatches(subs[subscribers[i]], id)}
    IN  IF hits = {} THEN 0 ELSE CHOOSE i \in hits : \A j \in hits : i <= j

\* a removal that cuts the registry off at the entry
RemoveFrom(seq, i) == SubSeq(seq, 1, i - 1)

\* append(h.subscribers[0:i], h.subscribers[i+1:]...)
RemoveAt(seq, i) == SubSeq(seq, 1, i - 1) \o SubSeq(seq, i + 1, Len(seq))

UnsubscribeBody(c) ==
    /\ pc[c] = "UnsubscribeLocked"
    /\ LET i == FindSubscriber(args[c].id)
       IN  IF i = 0
           THEN UNCHANGED <<subs, subscribers>>
           ELSE /\ subs' = close(subs, subscribers[i])
                /\ subscribers' = RemoveAt(subscribers, i)
    /\ unsubscribed' = unsubscribed (+) SetToBag({args[c].id})
    /\ mutex' = Free
    /\ pc' = [pc EXCEPT ![c] = "idle"]
    /\ ret' = [op |-> "Unsubscribe", by |-> c, err |-> "nil", val |-> args[c].id]
    /\ args' = [args EXCEPT ![c] = NoArgs]
    /\ UNCHANGED <<idx, pubs, tokens, ncalls, calls, annotations, limit>>

\* --- Publish ---

PublishCall(c, topic, data) ==
    /\ pc[c] = "idle"
    /\ ncalls < limit
    /\ ncalls' = ncalls + 1
    /\ ret' = NoRet
    /\ pc' = [pc EXCEPT ![c] = "Publish"]
    /\ args' = [args EXCEPT ![c] = [NoArgs EXCEPT !.topic = topic, !.data = data]]
    /\ UNCHANGED <<subscribers, idx, mutex, subs, pubs, tokens, unsubscribed,
                   calls, annotations, limit>>

\* done := make(chan struct{}); wait := sync.WaitGroup{}
NewFrame(topic, data) ==
    [topic |-> topic, data |-> data,
     i |-> 1,            \* position of the range loop
     s |-> 0,            \* the loop variable s
     wait |-> 0,         \* the WaitGroup's counter
     waiter |-> "none",  \* the goroutine that waits and closes done
     done |-> 0,         \* how often close(done) has run
     returned |-> FALSE,
     scanned |-> {},     \* the subscribers the loop has visited
     handed |-> {}]      \* the subscribers a closure was handed to

\* a Publish that starts its loop without waiting for the mutex
PublishLockFree(c) ==
    /\ pc[c] = "Publish"
    /\ mutex' = c
    /\ pubs' = Append(pubs, NewFrame(args[c].topic, args[c].data))
    /\ args' = [args EXCEPT ![c].pub = Len(pubs) + 1]
    /\ pc' = [pc EXCEPT ![c] = "PublishLoop"]
    /\ UNCHANGED <<subscribers, idx, subs, ret, tokens, unsubscribed, ncalls, calls, annotations, limit>>

PublishLock(c) ==
    /\ pc[c] = "Publish"
    /\ mutex = Free
    /\ mutex' = c
    /\ pubs' = Append(pubs, NewFrame(args[c].topic, args[c].data))
    /\ args' = [args EXCEPT ![c].pub = Len(pubs) + 1]
    /\ pc' = [pc EXCEPT ![c] = "PublishLoop"]
    /\ UNCHANGED <<subscribers, idx, subs, ret, tokens, unsubscribed, ncalls, calls, annotations, limit>>

\* wait.Add(1) outside the if: counts subscribers that get no closure
WaitAddAlways(f, hit) == f.wait + 1

\* if s.matchTopic(topic) { wait.Add(1); ... }: the counter after the iteration
WaitAdd(f, hit) == IF hit THEN f.wait + 1 ELSE f.wait

\* one iteration of: for _, s := range h.subscribers
PublishLoop(c) ==
    /\ pc[c] = "PublishLoop"
    /\ LET p == args[c].pub
           f == pubs[p]
       IN  /\ f.i <= Len(subscribers)
           /\ LET r == subscribers[f.i]
                  hit == matchTopic(subs[r], f.topic)
              IN  /\ pubs' = [pubs EXCEPT ![p] =
                        [f EXCEPT !.i = f.i + 1,
                                  !.s = r,
                                  !.scanned = @ \cup {r},
                                  !.wait = WaitAdd(f, hit),
                                  !.handed = IF hit THEN @ \cup {r} ELSE @]]
                  /\ subs' = IF hit THEN notify(subs, r, [pub |-> p, own |-> r])
                                    ELSE subs
    /\ UNCHANGED <<subscribers, idx, mutex, pc, args, ret, tokens, unsubscribed,
                   ncalls, calls, annotations, limit>>

\* a Publish that waits for its closures itself: wait.Wait() before the return
PublishMayReturnAfterWait(f) == f.i > Len(subscribers) /\ f.wait = 0

\* what Publish waits for before it returns: nothing but the end of the loop
PublishMayReturn(f) == f.i > Len(subscribers)

\* a Publish that returns without its deferred Unlock
PublishReturnKeepsLock(c) ==
    /\ pc[c] = "PublishLoop"
    /\ LET p == args[c].pub
       IN  /\ PublishMayReturn(pubs[p])
           /\ pubs' = [pubs EXCEPT ![p].waiter = "waiting", ![p].returned = TRUE]
           /\ ret' = [op |-> "Publish", by |-> c, err |-> "nil", val |-> p]
    /\ pc' = [pc EXCEPT ![c] = "idle"]
    /\ args' = [args EXCEPT ![c] = NoArgs]
    /\ UNCHANGED <<subscribers, idx, mutex, subs, tokens, unsubscribed, ncalls,
                   calls, annotations, limit>>

\* go func() { wait.Wait(); close(done) }(); return &doneHandle{done: done}, nil
PublishReturn(c) ==
    /\ pc[c] = "PublishLoop"
    /\ LET p == args[c].pub
       IN  /\ PublishMayReturn(pubs[p])
           /\ pubs' = [pubs EXCEPT ![p].waiter = "waiting", ![p].returned = TRUE]
           /\ ret' = [op |-> "Publish", by |-> c, err |-> "nil", val |-> p]
    /\ mutex' = Free
    /\ pc' = [pc EXCEPT ![c] = "idle"]
    /\ args' = [args EXCEPT ![c] = NoArgs]
    /\ UNCHANGED <<subscribers, idx, subs, tokens, unsubscribed, ncalls, calls, annotations, limit>>

\* a Wait that returns while one closure is still outstanding
WaitReturnsEarly(f) == f.wait <= 1

\* wait.Wait() returns once the counter is zero
WaitReturns(f) == f.wait = 0

\* the waiter goroutine: wait.Wait(); close(done)
WaiterClose(p) ==
    /\ pubs[p].waiter = "waiting"
    /\ WaitReturns(pubs[p])
    /\ pubs' = [pubs EXCEPT ![p].waiter = "exited", ![p].done = @ + 1]
    /\ UNCHANGED <<subscribers, idx, mutex, subs, pc, args, ret, tokens,
                   unsubscribed, ncalls, calls, annotations, limit>>

\* --- the closure of Publish, run by the subscriber it was handed to ---

\* The subscribers `s` can denote when the closure evaluates s.handler. The
\* closure captures the range variable s: with one variable per loop (Go
\* before 1.22) it reads what the loop last assigned, racing with the loop;
\* with one variable per iteration (Go 1.22 on) it reads its own subscriber.
ClosureSubscriber(cl) == {cl.own, pubs[cl.pub].s}

\* the subscriber takes the next closure and calls it: s.handler(topic, data)
ClosureStart(r) ==
    /\ subs[r].pending # <<>>
    /\ subs[r].running = NoClosure
    /\ LET cl == Head(subs[r].pending)
           f == pubs[cl.pub]
       IN  /\ subs' = [subs EXCEPT ![r].pending = Tail(@), ![r].running = cl]
           /\ \E t \in ClosureSubscriber(cl) :
                calls' = calls (+) SetToBag({Invoke(cl.pub, t, subs[t].handler,
                                                    f.topic, f.data)})
    /\ UNCHANGED <<subscribers, idx, mutex, pubs, pc, args, ret, tokens,
                   unsubscribed, ncalls, annotations, limit>>

\* a closure that counts down the counter of the first publish, not its own
ClosureEndSharedCounter(r) ==
    /\ subs[r].running # NoClosure
    /\ pubs' = [pubs EXCEPT ![1].wait = IF @ > 0 THEN @ - 1 ELSE @]
    /\ subs' = [subs EXCEPT ![r].running = NoClosure]
    /\ UNCHANGED <<subscribers, idx, mutex, pc, args, ret, tokens, unsubscribed,
                   ncalls, calls, annotations, limit>>

\* the handler returns and the deferred wait.Done() runs
ClosureEnd(r) ==
    /\ subs[r].running # NoClosure
    /\ LET cl == subs[r].running
       IN  pubs' = [pubs EXCEPT ![cl.pub].wait = @ - 1]
    /\ subs' = [subs EXCEPT ![r].running = NoClosure]
    /\ UNCHANGED <<subscribers, idx, mutex, pc, args, ret, tokens, unsubscribed,
                   ncalls, calls, annotations, limit>>

\* the handler panics: the deferred wait.Done() runs while the panic unwinds
\* the closure, and the subscriber, having seen the panic, goes on
ClosurePanic(r) ==
    /\ subs[r].running # NoClosure
    /\ LET cl == subs[r].running
       IN  pubs' = [pubs EXCEPT ![cl.pub].wait = @ - 1]
    /\ subs' = [subs EXCEPT ![r].running = NoClosure, ![r].panics = @ + 1]
    /\ UNCHANGED <<subscribers, idx, mutex, pc, args, ret, tokens, unsubscribed,
                   ncalls, calls, annotations, limit>>

\* --- handlers that use the hub ---

\* the goroutine on which subscriber r runs its closures
Worker(r) == <<"w1", "w2", "w3", "w4", "w5">>[r]

\* inside s.handler(topic, data): the handler subscribes
HandlerSubscribe(r, topic) ==
    /\ subs[r].running # NoClosure
    /\ SubscribeCall(Worker(r), topic, PlainHandler)

\* inside s.handler(topic, data): the handler unsubscribes a token it holds
HandlerUnsubscribe(r, id) ==
    /\ subs[r].running # NoClosure
    /\ UnsubscribeCall(Worker(r), id)

\* inside s.handler(topic, data): the handler publishes a follow-up message
HandlerPublish(r, topic, data) ==
    /\ subs[r].running # NoClosure
    /\ PublishCall(Worker(r), topic, data)

\* the handler returns once the call it made has returned
HandlerReturn(r) ==
    /\ pc[Worker(r)] = "idle"
    /\ ClosureEnd(r)

\* --- structuredHub.Subscribe and Publish ---

StructSubscribe(c, topic, handler) ==
    /\ pc[c] = "idle"
    /\ ncalls < limit
    /\ LET chk == checkHandler(handler)
       IN  IF chk.err # "nil"
           THEN /\ ret' = [op |-> "Subscribe", by |-> c, err |-> chk.err, val |-> -1]
                /\ UNCHANGED <<pc, args, ncalls>>
           ELSE /\ pc' = [pc EXCEPT ![c] = "Subscribe"]
                /\ args' = [args EXCEPT ![c] =
                              [NoArgs EXCEPT !.topic = topic,
                                             !.handler = Deserialize(chk.rt)]]
                /\ ncalls' = ncalls + 1
                /\ ret' = NoRet
    /\ UNCHANGED <<subscribers, idx, mutex, subs, pubs, tokens, unsubscribed,
                   calls, annotations, limit>>

StructPublish(c, topic, data) ==
    /\ pc[c] = "idle"
    /\ ncalls < limit
    /\ LET sm == toStringMap(data)
           mg == MergeAnnotations(sm.m)
           err == IF sm.err # "nil" THEN sm.err ELSE mg.err
       IN  IF err # "nil"
           THEN /\ ret' = [op |-> "Publish", by |-> c, err |-> err, val |-> -1]
                /\ UNCHANGED <<pc, args, ncalls>>
           ELSE /\ pc' = [pc EXCEPT ![c] = "Publish"]
                /\ args' = [args EXCEPT ![c] =
                              [NoArgs EXCEPT !.topic = topic, !.data = mg.m]]
                /\ ncalls' = ncalls + 1
                /\ ret' = NoRet
    /\ UNCHANGED <<subscribers, idx, mutex, subs, pubs, tokens, unsubscribed,
                   calls, annotations, limit>>

----------------------------------------------------------------------------
Init ==
    /\ subscribers = <<>>
    /\ idx = 0
    /\ mutex = Free
    /\ subs = <<>>
    /\ pubs = <<>>
    /\ pc = [c \in Callers |-> "idle"]
    /\ args = [c \in Callers |-> NoArgs]
    /\ ret = NoRet
    /\ tokens = {}
    /\ unsubscribed = EmptyBag
    /\ ncalls = 0
    /\ calls = EmptyBag
    /\ annotations = NoAnnotations
    /\ limit = MaxCalls

Next ==
    \/ \E c \in Callers, t \in Patterns, h \in Handlers : SubscribeCall(c, t, h)
    \/ \E c \in Callers : SubscribeLock(c)
    \/ \E c \in Callers : SubscribeBody(c)
    \/ \E c \in Callers, id \in tokens : UnsubscribeCall(c, id)
    \/ \E c \in Callers : UnsubscribeLock(c)
    \/ \E c \in Callers : UnsubscribeBody(c)
    \/ \E c \in Callers, t \in Topics : \E d \in DataOf(c) : PublishCall(c, t, d)
    \/ \E c \in Callers : PublishLock(c)
    \/ \E c \in Callers : PublishLoop(c)
    \/ \E c \in Callers : PublishReturn(c)
    \/ \E p \in PubIds : WaiterClose(p)
    \/ \E r \in Refs : ClosureStart(r)
    \/ \E r \in Refs : ClosureEnd(r)

Spec == Init /\ [][Next]_vars

\* The basic hub with every goroutine scheduled fairly: a caller inside a call
\* goes on, a subscriber with a closure to run or to finish does so, and the
\* waiter of a publish runs once its Wait can return.
LiveInit ==
    /\ subscribers = <<>>
    /\ idx = 0
    /\ mutex = Free
    /\ subs = <<>>
    /\ pubs = <<>>
    /\ pc = [c \in Callers |-> "idle"]
    /\ args = [c \in Callers |-> NoArgs]
    /\ ret = NoRet
    /\ tokens = {}
    /\ unsubscribed = EmptyBag
    /\ ncalls = 0
    /\ calls = EmptyBag
    /\ annotations = NoAnnotations
    /\ limit = MaxLiveCalls

CallerStep(c) ==
    \/ SubscribeLock(c) \/ SubscribeBody(c)
    \/ UnsubscribeLock(c) \/ UnsubscribeBody(c)
    \/ PublishLock(c) \/ PublishLoop(c) \/ PublishReturn(c)

Fairness ==
    /\ \A c \in Callers : WF_vars(CallerStep(c))
    /\ \A r \in 1..MaxLiveCalls : WF_vars(r \in Refs /\ (ClosureStart(r) \/ ClosureEnd(r)))
    /\ \A p \in 1..MaxLiveCalls : WF_vars(p \in PubIds /\ WaiterClose(p))

LiveSpec == LiveInit /\ [][Next]_vars /\ Fairness

\* The basic hub used by one caller, with handlers that return, panic or stay
\* inside the call.
FailInit ==
    /\ subscribers = <<>>
    /\ idx = 0
    /\ mutex = Free
    /\ subs = <<>>
    /\ pubs = <<>>
    /\ pc = [c \in Callers |-> "idle"]
    /\ args = [c \in Callers |-> NoArgs]
    /\ ret = NoRet
    /\ tokens = {}
    /\ unsubscribed = EmptyBag
    /\ ncalls = 0
    /\ calls = EmptyBag
    /\ annotations = NoAnnotations
    /\ limit = MaxFailCalls

FailNext ==
    \/ \E t \in Topics : SubscribeCall("c1", t, PlainHandler)
    \/ SubscribeLock("c1")
    \/ SubscribeBody("c1")
    \/ \E id \in tokens : UnsubscribeCall("c1", id)
    \/ UnsubscribeLock("c1")
    \/ UnsubscribeBody("c1")
    \/ \E t \in Topics, d \in DataOf("c1") : PublishCall("c1", t, d)
    \/ PublishLock("c1")
    \/ PublishLoop("c1")
    \/ PublishReturn("c1")
    \/ \E p \in PubIds : WaiterClose(p)
    \/ \E r \in Refs : ClosureStart(r)
    \/ \E r \in Refs : ClosureEnd(r)
    \/ \E r \in Refs : ClosurePanic(r)

FailSpec == FailInit /\ [][FailNext]_vars

\* The basic hub used by one caller and by the handlers themselves, which
\* subscribe, unsubscribe and publish on the hub from inside a notification;
\* every goroutine is scheduled fairly.
ReentrantCallers == {"c1"} \cup {Worker(r) : r \in 1..MaxReentrantCalls}

ReentrantInit ==
    /\ subscribers = <<>>
    /\ idx = 0
    /\ mutex = Free
    /\ subs = <<>>
    /\ pubs = <<>>
    /\ pc = [c \in ReentrantCallers |-> "idle"]
    /\ args = [c \in ReentrantCallers |-> NoArgs]
    /\ ret = NoRet
    /\ tokens = {}
    /\ unsubscribed = EmptyBag
    /\ ncalls = 0
    /\ calls = EmptyBag
    /\ annotations = NoAnnotations
    /\ limit = MaxReentrantCalls

ReentrantNext ==
    \/ SubscribeCall("c1", "a", PlainHandler)
    \/ \E id \in tokens : UnsubscribeCall("c1", id)
    \/ \E d \in DataOf("c1") : PublishCall("c1", "a", d)
    \/ \E r \in Refs : HandlerSubscribe(r, "a")
    \/ \E r \in Refs, id \in tokens : HandlerUnsubscribe(r, id)
    \/ \E r \in Refs : \E d \in DataOf(Worker(r)) : HandlerPublish(r, "a", d)
    \/ \E c \in ReentrantCallers : SubscribeLock(c)
    \/ \E c \in ReentrantCallers : SubscribeBody(c)
    \/ \E c \in ReentrantCallers : UnsubscribeLock(c)
    \/ \E c \in ReentrantCallers : UnsubscribeBody(c)
    \/ \E c \in ReentrantCallers : PublishLock(c)
    \/ \E c \in ReentrantCallers : PublishLoop(c)
    \/ \E c \in ReentrantCallers : PublishReturn(c)
    \/ \E p \in PubIds : WaiterClose(p)
    \/ \E r \in Refs : ClosureStart(r)
    \/ \E r \in Refs : HandlerReturn(r)

ReentrantFairness ==
    /\ \A c \in ReentrantCallers : WF_vars(CallerStep(c))
    /\ \A r \in 1..MaxReentrantCalls :
         WF_vars(r \in Refs /\ (ClosureStart(r) \/ HandlerReturn(r)))
    /\ \A p \in 1..MaxReentrantCalls : WF_vars(p \in PubIds /\ WaiterClose(p))

ReentrantSpec == ReentrantInit /\ [][ReentrantNext]_vars /\ ReentrantFairness

\* A structured hub, made with some annotations and used by one caller.
StructCallers == {"c1"}
StructTopics == {"a"}

StructInit ==
    /\ subscribers = <<>>
    /\ idx = 0
    /\ mutex = Free
    /\ subs = <<>>
    /\ pubs = <<>>
    /\ pc = [c \in Callers |-> "idle"]
    /\ args = [c \in Callers |-> NoArgs]
    /\ ret = NoRet
    /\ tokens = {}
    /\ unsubscribed = EmptyBag
    /\ ncalls = 0
    /\ calls = EmptyBag
    /\ annotations \in AnnotationChoices
    /\ limit = MaxStructCalls

StructNext ==
    \/ \E c \in StructCallers, t \in Patterns, h \in StructHandlers :
          StructSubscribe(c, t, h)
    \/ \E c \in StructCallers, t \in StructTopics, d \in Payloads :
          StructPublish(c, t, d)
    \/ \E c \in StructCallers : SubscribeLock(c)
    \/ \E c \in StructCallers : SubscribeBody(c)
    \/ \E c \in StructCallers, id \in tokens : UnsubscribeCall(c, id)
    \/ \E c \in StructCallers : UnsubscribeLock(c)
    \/ \E c \in StructCallers : UnsubscribeBody(c)
    \/ \E c \in StructCallers : PublishLock(c)
    \/ \E c \in StructCallers : PublishLoop(c)
    \/ \E c \in StructCallers : PublishReturn(c)
    \/ \E p \in PubIds : WaiterClose(p)
    \/ \E r \in Refs : ClosureStart(r)
    \/ \E r \in Refs : ClosureEnd(r)

StructSpec == StructInit /\ [][StructNext]_vars

\* A structured hub made with the annotation {"app": "x"}: map-typed handlers
\* subscribe to "foo.*", and {"topic": "foo.bar", "value": 1} is published to
\* "foo.bar".
MapHandler == Func(<<StringType, MapType, ErrorType>>, 0)
ScenarioAnnotations == Map([app |-> "\"x\""])
ScenarioPayload == Map([topic |-> "\"foo.bar\"", value |-> "1"])

ScenarioInit ==
    /\ subscribers = <<>>
    /\ idx = 0
    /\ mutex = Free
    /\ subs = <<>>
    /\ pubs = <<>>
    /\ pc = [c \in Callers |-> "idle"]
    /\ args = [c \in Callers |-> NoArgs]
    /\ ret = NoRet
    /\ tokens = {}
    /\ unsubscribed = EmptyBag
    /\ ncalls = 0
    /\ calls = EmptyBag
    /\ annotations = ScenarioAnnotations
    /\ limit = MaxStructCalls

ScenarioNext ==
    \/ \E c \in StructCallers : StructSubscribe(c, "foo.*", MapHandler)
    \/ \E c \in StructCallers : StructPublish(c, "foo.bar", ScenarioPayload)
    \/ \E c \in StructCallers : SubscribeLock(c)
    \/ \E c \in StructCallers : SubscribeBody(c)
    \/ \E c \in StructCallers, id \in tokens : UnsubscribeCall(c, id)
    \/ \E c \in StructCallers : UnsubscribeLock(c)
    \/ \E c \in StructCallers : UnsubscribeBody(c)
    \/ \E c \in StructCallers : PublishLock(c)
    \/ \E c \in StructCallers : PublishLoop(c)
    \/ \E c \in StructCallers : PublishReturn(c)
    \/ \E p \in PubIds : WaiterClose(p)
    \/ \E r \in Refs : ClosureStart(r)
    \/ \E r \in Refs : ClosureEnd(r)

ScenarioSpec == ScenarioInit /\ [][ScenarioNext]_vars

----------------------------------------------------------------------------
\* Properties

\* how often the function of subscriber r was called for publish p
InvocationsIn(bag, p, r) ==
    LET es == {e \in BagToSet(bag) : e.pub = p /\ e.sub = r}
    IN  BagCardinality([e \in es |-> bag[e]])

Invocations(p, r) == InvocationsIn(calls, p, r)

\* closures of publish p that were handed over and have not finished
Outstanding(p) ==
    {r \in Refs : \/ subs[r].running.pub = p
                  \/ \E k \in 1..Len(subs[r].pending) : subs[r].pending[k].pub = p}

\* the closure publish p handed to r has been taken up by r
Started(p, r) ==
    /\ r \in pubs[p].handed
    /\ \A k \in 1..Len(subs[r].pending) : subs[r].pending[k].pub # p

\* C1: for every publish and every subscription the publish has scanned, the
\* subscription's own handler is never called for it when the pattern does not
\* match the topic, and when it matches it is called exactly once, with the
\* publish's topic and data, as soon as the subscriber takes up the closure,
\* and not before.
C1_HandlerIffMatch ==
    \A p \in PubIds : \A r \in pubs[p].scanned :
        LET f == pubs[p]
            own == Invoke(p, r, subs[r].handler, f.topic, f.data)
        IN  IF matchTopic(subs[r], f.topic)
            THEN /\ Invocations(p, r) = CopiesIn(own, calls)
                 /\ Invocations(p, r) = IF Started(p, r) THEN 1 ELSE 0
            ELSE Invocations(p, r) = 0

\* C2: a closed done channel means the publish's counter is zero and none of
\* its closures is still queued or running; done is closed at most once.
C2_NeverEarlyNeverTwice ==
    \A p \in PubIds :
        /\ pubs[p].done <= 1
        /\ pubs[p].done = 1 => pubs[p].wait = 0 /\ Outstanding(p) = {}

\* C2 witness: a publish that handed out two closures has its done closed.
C2_Witness ==
    \E p \in PubIds : pubs[p].done = 1 /\ Cardinality(pubs[p].handed) = 2

\* C3: once Publish has returned its handle, the handle's done is eventually
\* closed and stays closed exactly once, given that the closures are run to
\* their end and the waiter is scheduled; and a closure that ends counts down
\* the counter of its own publish only.
C3_EventuallyResolvesOnce ==
    /\ \A p \in 1..MaxLiveCalls :
         (p \in PubIds /\ pubs[p].returned) ~> [](p \in PubIds /\ pubs[p].done = 1)
    /\ [][\A r \in Refs :
            (subs[r].running # NoClosure /\ subs'[r].running = NoClosure) =>
               \A q \in PubIds :
                  pubs'[q].wait = IF q = subs[r].running.pub
                                  THEN pubs[q].wait - 1 ELSE pubs[q].wait]_vars

\* C3 witness: two publishes that each handed out a closure are both resolved.
C3_Witness ==
    /\ Len(pubs) = 2
    /\ \A p \in PubIds : pubs[p].handed # {} /\ pubs[p].done = 1

C5_PublishNeverWaitsForHandler ==
    \A c \in Callers :
        /\ pc[c] = "PublishLoop" => ENABLED (PublishLoop(c) \/ PublishReturn(c))
        /\ pc[c] = "SubscribeLocked" => ENABLED SubscribeBody(c)
        /\ pc[c] = "UnsubscribeLocked" => ENABLED UnsubscribeBody(c)
        /\ mutex = c <=> pc[c] \in {"PublishLoop", "SubscribeLocked", "UnsubscribeLocked"}

\* C5 witness: two publishes have returned after handing out closures, and no
\* handler has been called yet.
C5_Witness ==
    /\ Len(pubs) = 2
    /\ \A p \in PubIds : pubs[p].returned /\ pubs[p].handed # {}
    /\ calls = EmptyBag
    /\ \A r \in Refs : subs[r].running = NoClosure

\* C6: when a subscriber that was unsubscribed while a closure handed to it
\* was still queued takes up that closure, its own handler is called for that
\* publish; the closures handed to the other subscribers stay queued for them.
C6_RemovalMidPublish ==
    [][\A r \in Refs :
         ( /\ subs[r].closed > 0
           /\ subs[r].pending # <<>>
           /\ subs[r].running = NoClosure
           /\ subs'[r].running = Head(subs[r].pending) ) =>
            /\ InvocationsIn(calls', Head(subs[r].pending).pub, r) =
                  InvocationsIn(calls, Head(subs[r].pending).pub, r) + 1
            /\ \A q \in Refs \ {r} : subs'[q] = subs[q]]_vars

\* C7: an Unsubscribe of an id whose Unsubscribe has returned before changes
\* neither the registry nor the id counter nor any subscriber (no close hook
\* runs), and returns without an error; no close hook ever runs twice.
C7_UnsubscribeIdempotent ==
    /\ [][\A c \in Callers :
            ( /\ pc[c] = "UnsubscribeLocked"
              /\ pc'[c] = "idle"
              /\ CopiesIn(args[c].id, unsubscribed) > 0 ) =>
               /\ UNCHANGED <<subscribers, idx, subs, tokens>>
               /\ ret'.op = "Unsubscribe" /\ ret'.err = "nil"]_vars
    /\ [](\A r \in Refs : subs[r].closed <= 1)

\* C7 witness: Unsubscribe has returned twice for one id while another
\* subscription is in the registry.
C7_Witness ==
    /\ \E id \in tokens : CopiesIn(id, unsubscribed) = 2
    /\ Len(subscribers) = 1
    /\ \A c \in Callers : pc[c] = "idle"

\* C8: a Subscribe that newSubscriber refuses returns an error and no token
\* and changes neither the registry nor the id counter nor the tokens; hence
\* the n-th subscription made has id n-1 however many Subscribes failed.
C8_FailedSubscribeNoEffect ==
    /\ [][\A c \in Callers :
            ( /\ pc[c] = "SubscribeLocked"
              /\ pc'[c] = "idle"
              /\ ~newSubscriberOk(args[c].topic, args[c].handler) ) =>
               /\ UNCHANGED <<subscribers, idx, subs, tokens>>
               /\ ret'.op = "Subscribe" /\ ret'.err # "nil" /\ ret'.val = -1]_vars
    /\ [](\A r \in Refs : subs[r].id = r - 1)
    /\ [](tokens = {subs[r].id : r \in Refs})

\* C8 witness: after two failed Subscribes (a pattern that does not compile,
\* an invalid handler) two Subscribes have succeeded.
C8_Witness ==
    /\ ncalls = 4
    /\ Len(subs) = 2
    /\ Len(pubs) = 0
    /\ unsubscribed = EmptyBag
    /\ \A c \in Callers : pc[c] = "idle"
    /\ ret.op = "Subscribe" /\ ret.err = "nil" /\ ret.val = 1

\* the handler shapes the structured hub is to accept: a function of a
\* string-kind topic, a data parameter that is map[string]interface{} or a
\* struct, and an error, with no result
ValidShape(h) ==
    /\ h.kind = "func"
    /\ Len(h.in) = 3
    /\ h.out = 0
    /\ h.in[1].kind = "string"
    /\ h.in[2] = MapType \/ h.in[2].kind = "struct"
    /\ h.in[3] = ErrorType

\* C9: structured Subscribe hands a handler on to the basic hub iff it has
\* the valid shape; for every other handler it returns the not-valid error and
\* no token and leaves the registry alone; while there is no subscriber no
\* handler is called.
C9_HandlerShape ==
    /\ [][\A c \in StructCallers, t \in Patterns, h \in StructHandlers :
            StructSubscribe(c, t, h) =>
               IF ValidShape(h)
               THEN /\ pc'[c] = "Subscribe"
                    /\ args'[c].handler = Deserialize(h.in[2])
               ELSE /\ ret'.op = "Subscribe" /\ ret'.err = "NotValid" /\ ret'.val = -1
                    /\ UNCHANGED <<subscribers, subs, idx, tokens, pc>>]_vars
    /\ [](subs = <<>> => calls = EmptyBag)

\* C10: structured Publish of a map[string]interface{} m hands on a map with
\* the keys of m and of the annotations, m's value for every key of m and the
\* annotation's for the others; a handler that takes a map gets the map the
\* publish handed on, and a nil error.
C10_MergeKeepsCallerValues ==
    /\ [][\A c \in StructCallers, t \in StructTopics, m \in MapPayloads :
            StructPublish(c, t, m) =>
               /\ pc'[c] = "Publish"
               /\ LET d == args'[c].data
                  IN  /\ d.kind = "map"
                      /\ DOMAIN d.kv = DOMAIN m.kv \cup DOMAIN annotations.kv
                      /\ \A k \in DOMAIN d.kv :
                            d.kv[k] = IF k \in DOMAIN m.kv THEN m.kv[k]
                                      ELSE annotations.kv[k]]_vars
    /\ [](\A c \in StructCallers :
            pc[c] = "PublishLoop" => pubs[args[c].pub].data = args[c].data)
    /\ [](\A e \in BagToSet(calls) :
            subs[e.sub].handler.rt = MapType =>
               e.data = pubs[e.pub].data /\ e.err = "nil")

\* C11 as stated: in the scenario every handler called for a publish of
\* {"topic": "foo.bar", "value": 1} to "foo.bar" receives exactly the map
\* {"value": 1, "app": "x"}.
C11_ScenarioDropsTopicKey ==
    \A e \in BagToSet(calls) :
        e.data = Map([value |-> "1", app |-> "\"x\""])

\* C11 amended: every handler called in the scenario receives the topic
\* "foo.bar", a nil error and exactly the map {"topic": "foo.bar", "value": 1,
\* "app": "x"}: the payload's own entries, its "topic" entry among them, and
\* the annotation; and every subscriber that takes up a closure of a publish
\* has a handler called for it.
C11_ScenarioKeepsPayload ==
    /\ \A e \in BagToSet(calls) :
         /\ e.topic = "foo.bar"
         /\ e.err = "nil"
         /\ e.data = Map([topic |-> "\"foo.bar\"", value |-> "1", app |-> "\"x\""])
    /\ \A p \in PubIds : \A r \in Refs :
         Started(p, r) => \E e \in BagToSet(calls) : e.pub = p

\* C11 witness: with one subscription to "foo.*" in the registry, its handler
\* has been called for the one publish made, which is resolved.
C11_Witness ==
    /\ Len(subs) = 1 /\ Len(pubs) = 1
    /\ pubs[1].done = 1
    /\ Invocations(1, 1) = 1

\* C12: every subscriber that has taken up the closure of a publish has had
\* its own handler called exactly once for it: with the converted value and a
\* nil error when the canonical map converts into the handler's data type, and
\* with the zero value of that type and a non-nil error when it does not; the
\* Publish has returned no error, and its counter is zero once its closures
\* have ended.
C12_ConversionFailureIsLocal ==
    /\ \A p \in PubIds : \A r \in pubs[p].handed :
         Started(p, r) =>
            LET d == deserialize(subs[r].handler.rt, pubs[p].data)
                own == [pub |-> p, sub |-> r, topic |-> pubs[p].topic,
                        data |-> IF d.err = "nil" THEN d.value ELSE ZeroRec,
                        err |-> d.err]
            IN  /\ Invocations(p, r) = 1
                /\ CopiesIn(own, calls) = 1
    /\ ret.op = "Publish" /\ ret.val # -1 => ret.err = "nil"
    /\ \A p \in PubIds :
         pubs[p].returned /\ Outstanding(p) = {} => pubs[p].wait = 0

\* C13: a structured Publish, whatever the payload, either returns an error
\* and no handle and then has made no frame, handed over no closure and left
\* registry, id counter and subscribers as they were, or goes on to the basic
\* hub's Publish with a map[string]interface{}.
C13_PublishAbortsOrDeliversMap ==
    [][\A c \in StructCallers, t \in StructTopics, d \in Payloads :
         StructPublish(c, t, d) =>
            \/ /\ ret'.op = "Publish" /\ ret'.val = -1
               /\ ret'.err \notin {"nil", "panic"}
               /\ UNCHANGED <<subscribers, idx, subs, pubs, pc, calls, tokens>>
            \/ /\ pc'[c] = "Publish"
               /\ args'[c].data.kind = "map"]_vars

\* C14: while another subscriber has a handler that panicked or is still
\* inside its handler, a subscriber that takes up a closure has its own
\* handler called for that publish, and the others' queues are left alone;
\* a subscriber with a closure queued and none running can always take it up;
\* and every closure that ends, by return or by panic, counts down the counter
\* of its own publish by one and no other counter.
C14_FailureIsolated ==
    /\ [][\A r \in Refs :
            /\ ( /\ subs[r].pending # <<>>
                 /\ subs[r].running = NoClosure
                 /\ subs'[r].running = Head(subs[r].pending)
                 /\ \E q \in Refs \ {r} :
                       subs[q].panics > 0 \/ subs[q].running # NoClosure ) =>
                  /\ InvocationsIn(calls', Head(subs[r].pending).pub, r) =
                        InvocationsIn(calls, Head(subs[r].pending).pub, r) + 1
                  /\ \A q \in Refs \ {r} : subs'[q] = subs[q]
            /\ (subs[r].running # NoClosure /\ subs'[r].running = NoClosure) =>
                  \A q \in PubIds :
                     pubs'[q].wait = IF q = subs[r].running.pub
                                     THEN pubs[q].wait - 1 ELSE pubs[q].wait]_vars
    /\ [](\A r \in Refs :
            subs[r].pending # <<>> /\ subs[r].running = NoClosure =>
               ENABLED ClosureStart(r))

\* the subscribers in the registry, and those of them that match a topic
Registered == {subscribers[i] : i \in 1..Len(subscribers)}
Matching(topic) == {r \in Registered : matchTopic(subs[r], topic)}

\* the callers inside a critical section
InCritical == {c \in Callers : pc[c] \in {"SubscribeLocked", "UnsubscribeLocked",
                                           "PublishLoop"}}

\* C15: from the moment a Publish holds the lock until it returns, no step
\* of any caller changes the registry or the id counter; at its return the
\* subscribers it has handed closures to are exactly the registered
\* subscribers matching its topic, and that set never changes afterwards;
\* closures are handed over by the lock holder only; handlers are called only
\* for subscribers the publish has visited; and at most one caller is inside
\* a critical section of Subscribe, Unsubscribe or Publish.
C15_PublishSeesRegistryAtomically ==
    /\ [][/\ \A c \in Callers :
              pc[c] = "PublishLoop" =>
                 /\ UNCHANGED <<subscribers, idx>>
                 /\ pubs[args[c].pub].handed \subseteq Matching(pubs[args[c].pub].topic)
                 /\ pc'[c] = "idle" =>
                       pubs'[args[c].pub].handed = Matching(pubs[args[c].pub].topic)
          /\ \A p \in PubIds :
              pubs[p].returned => pubs'[p].handed = pubs[p].handed
          /\ \A r \in Refs :
              Len(subs'[r].pending) > Len(subs[r].pending) =>
                 \E c \in Callers : mutex = c /\ pc[c] = "PublishLoop"]_vars
    /\ [](\A e \in BagToSet(calls) : e.sub \in pubs[e.pub].scanned)
    /\ [](Cardinality(InCritical) <= 1 /\ (mutex = Free <=> InCritical = {}))

\* C15 witness: a publish has returned having handed a closure to the
\* subscriber registered before it, which has run it; a matching subscriber
\* registered after the publish got none.
C15_Witness ==
    /\ Len(subs) = 2 /\ Len(pubs) = 1
    /\ subscribers = <<1, 2>>
    /\ \A r \in Refs : matchTopic(subs[r], pubs[1].topic)
    /\ pubs[1].returned /\ pubs[1].handed = {1}
    /\ Invocations(1, 1) = 1 /\ subs[2].pending = <<>>

\* C16: an iteration of Publish's loop hands at most one closure over, to the
\* subscriber at the loop's position in the registry, at the end of that
\* subscriber's queue, and moves on by one; a publish makes its frame only
\* after every earlier publish has returned, so the hand-offs of two publishes
\* never interleave; and every subscriber holds the closures of different
\* publishes in the order of the publishes.
C16_HandOffInRegistryOrder ==
    /\ [][\A c \in Callers :
            (pc[c] = "PublishLoop" /\ pubs'[args[c].pub].i # pubs[args[c].pub].i) =>
               LET p == args[c].pub
                   r == subscribers[pubs[p].i]
               IN  /\ pubs'[p].i = pubs[p].i + 1
                   /\ pubs'[p].s = r
                   /\ subs'[r].pending =
                         IF matchTopic(subs[r], pubs[p].topic)
                         THEN Append(subs[r].pending, [pub |-> p, own |-> r])
                         ELSE subs[r].pending
                   /\ \A q \in Refs \ {r} : subs'[q] = subs[q]]_vars
    /\ [](\A p \in PubIds : p < Len(pubs) => pubs[p].returned)
    /\ [](\A r \in Refs :
            LET q == subs[r].pending
            IN  /\ \A j, k \in 1..Len(q) : j < k => q[j].pub < q[k].pub
                /\ \A k \in 1..Len(q) :
                      subs[r].running # NoClosure => subs[r].running.pub < q[k].pub)

\* C16 witness: two subscribers matched by two publishes are inside handlers
\* at the same time, the first still in the closure of the first publish with
\* the closure of the second queued behind it, the second already in the
\* closure of the second publish.
C16_Witness ==
    /\ Len(subs) = 2 /\ Len(pubs) = 2
    /\ subs[1].running = [pub |-> 1, own |-> 1]
    /\ subs[1].pending = <<[pub |-> 2, own |-> 1]>>
    /\ subs[2].running = [pub |-> 2, own |-> 2]

\* C17: an Unsubscribe of an id that is in the registry leaves the registry
\* as it was with that one entry deleted, the others in the same order; it
\* changes no other subscriber and not the id counter, and runs the close hook
\* of the removed subscriber; in every state a subscriber's close hook has run
\* once if it was removed and never if it is registered.
C17_UnsubscribeRemovesOne ==
    /\ [][\A c \in Callers :
            ( /\ pc[c] = "UnsubscribeLocked"
              /\ pc'[c] = "idle"
              /\ \E x \in Registered : subs[x].id = args[c].id ) =>
               LET r == CHOOSE x \in Registered : subs[x].id = args[c].id
               IN  /\ subscribers' = SelectSeq(subscribers, LAMBDA q : q # r)
                   /\ Len(subscribers') = Len(subscribers) - 1
                   /\ \A q \in Refs \ {r} : subs'[q] = subs[q]
                   /\ subs'[r] = [subs[r] EXCEPT !.closed = 1]
                   /\ idx' = idx]_vars
    /\ [](\A r \in Refs : subs[r].closed = IF r \in Registered THEN 0 ELSE 1)

\* C17 witness: of three subscriptions the middle one has been unsubscribed.
C17_Witness ==
    /\ Len(subs) = 3
    /\ subscribers = <<1, 3>>
    /\ subs[2].closed = 1
    /\ ret.op = "Unsubscribe" /\ ret.val = 1

\* C18: the ids in the registry are strictly ascending and below the id
\* counter; the counter is the number of subscriptions ever made; it never
\* decreases; a Subscribe that succeeds returns the counter's value, an id no
\* token handed out before carries, and advances the counter by one; and no
\* step of a Publish changes the registry, the counter or a subscriber's id.
C18_IdsUniqueAscending ==
    /\ [](\A i, j \in 1..Len(subscribers) :
            i < j => subs[subscribers[i]].id < subs[subscribers[j]].id)
    /\ [](\A r \in Refs : subs[r].id < idx)
    /\ [](idx = Len(subs))
    /\ [][/\ idx' >= idx
          /\ \A c \in Callers :
              /\ ( /\ pc[c] = "SubscribeLocked" /\ pc'[c] = "idle"
                   /\ ret'.err = "nil" ) =>
                    /\ ret'.val = idx /\ ret'.val \notin tokens
                    /\ \A r \in Refs : subs[r].id # ret'.val
                    /\ idx' = idx + 1
              /\ (PublishCall(c, args'[c].topic, args'[c].data)
                    \/ PublishLock(c) \/ PublishLoop(c) \/ PublishReturn(c)) =>
                    /\ UNCHANGED <<subscribers, idx, tokens>>
                    /\ \A r \in Refs : subs'[r].id = subs[r].id]_vars

\* C18 witness: after a subscription was removed, a third Subscribe has
\* returned the id 2.
C18_Witness ==
    /\ Len(subs) = 3
    /\ subscribers = <<2, 3>>
    /\ ret.op = "Subscribe" /\ ret.err = "nil" /\ ret.val = 2

\* C19: with notify queueing the closure, whoever holds the registry lock can
\* always take its next step, whatever the handlers do, and only a goroutine
\* inside a critical section holds the lock; and under fair scheduling every
\* call of Subscribe, Unsubscribe and Publish returns, those made by a handler
\* from inside a notification included.
C19_EveryCallReturns ==
    /\ [](\A c \in ReentrantCallers :
            /\ mutex = c <=> pc[c] \in {"SubscribeLocked", "UnsubscribeLocked",
                                        "PublishLoop"}
            /\ mutex = c => ENABLED CallerStep(c))
    /\ \A c \in ReentrantCallers : (pc[c] # "idle") ~> (pc[c] = "idle")

\* C19 witness: a handler that unsubscribed its own subscription is still
\* inside the notification after the Unsubscribe has returned.
C19_Witness ==
    /\ Len(subs) = 1
    /\ subs[1].running # NoClosure
    /\ subs[1].closed = 1 /\ subscribers = <<>>
    /\ ret = [op |-> "Unsubscribe", by |-> Worker(1), err |-> "nil", val |-> 0]

\* C20: a structured Publish of a map[string]interface{} m goes on to the
\* basic hub with m itself, into which the merge has written every annotation
\* key m lacked: the caller's map then has every annotation key and its own
\* entries as before; and no step changes the hub's annotations.
C20_MergeInPlace ==
    [][/\ \A c \in StructCallers, t \in StructTopics, m \in MapPayloads :
            StructPublish(c, t, m) =>
               /\ toStringMap(m).cast
               /\ pc'[c] = "Publish"
               /\ args'[c].data = CallersMapAfter(m)
               /\ DOMAIN annotations.kv \subseteq DOMAIN CallersMapAfter(m).kv
               /\ \A k \in DOMAIN m.kv : CallersMapAfter(m).kv[k] = m.kv[k]
       /\ annotations' = annotations]_vars

====
